---- MODULE Spec2Model ----
(***************************************************************************)
(* sphinxcontrib.pic: the `pic` directive (PicDirective), the node it      *)
(* builds (PicNode) and the visitors registered for it in setup().         *)
(*                                                                         *)
(* Python values.  A str is a sequence of tokens (each token a literal     *)
(* piece of text, whitespace being the tokens " " and "\n"), so that ''    *)
(* is <<>>.  None and False are distinguished values that no text equals.  *)
(* A dict is a function whose DOMAIN is its key set.  bytes are sequences  *)
(* of <<"byte", token>> pairs, so that str and bytes stay apart.           *)
(***************************************************************************)
EXTENDS Integers, Sequences, FiniteSets, TLC

VARIABLES
    pic_options,   \* conf.py: pic_options, language -> profile dict
    arguments,     \* self.arguments: <<language>> or <<language, filename>>
    content,       \* self.content: the lines of the directive body
    options,       \* self.options as parsed by docutils (before run ())
    pc,            \* "directive", "probed", "failed", "node", "communicate",
                   \* "visited" ("sanitize" under SpecSan)
    probe,         \* the last call of get_opt made on the directive
    runExc,        \* the exception run () ended with, "" when it returned
    runNames,      \* what that exception's message names
    warnings,      \* messages passed to document.reporter.warning
    fileOpened,    \* TRUE once open (filename) was called
    dependencies,  \* env.note_dependency
    node,          \* the attributes of the PicNode built by _run
    figure,        \* TRUE when the node was wrapped in a figure
    builder,       \* the output target whose visitor visits the node
    body,          \* translator.body
    proc,          \* the external process: "none", "cannot start" (Popen
                   \* raised an OSError), "running", "terminated"
    started,       \* TRUE once subprocess.Popen created a process
    killed,        \* TRUE once proc.kill () was called
    elapsed,       \* time spent in proc.communicate (..., timeout = 15)
    stdout,        \* what communicate returned
    stderr,
    status,        \* the exit status of the process
    renderExit,    \* how render ended: "", "returned" or the exception
    renderRet,     \* the value render returned
    visitExc,      \* the exception the visitor ended with
    san            \* the text/xml substitutions applied repeatedly

vars == <<pic_options, arguments, content, options, pc, probe, runExc,
          runNames, warnings, fileOpened, dependencies, node, figure, builder, body,
          proc, started, killed, elapsed, stdout, stderr, status,
          renderExit, renderRet, visitExc, san>>

-----------------------------------------------------------------------------
(* Python values *)

None    == <<"<None>">>
PyFalse == <<"<False>">>

\* `not v`
Falsy(v) == v = None \/ v = <<>> \/ v = PyFalse

\* `a or b`
Or(a, b) == IF Falsy(a) THEN b ELSE a

\* '%s' % v
Str(v) == IF v = None THEN <<"None">> ELSE v

\* d.get (k)
Get(d, k) == IF k \in DOMAIN d THEN d[k] ELSE None

\* d[k] = v
SetItem(d, k, v) == [x \in DOMAIN d \cup {k} |-> IF x = k THEN v ELSE d[x]]

\* d.pop (k)
Pop(d, k) == [x \in DOMAIN d \ {k} |-> d[x]]

EmptyDict == [x \in {} |-> None]

IsSpace(t) == t \in {" ", "\n"}

RECURSIVE lstrip(_)
lstrip(s) ==
    IF s = <<>> THEN <<>>
    ELSE IF IsSpace(Head(s)) THEN lstrip(Tail(s)) ELSE s

RECURSIVE rstrip(_)
rstrip(s) ==
    IF s = <<>> THEN <<>>
    ELSE IF IsSpace(s[Len(s)]) THEN rstrip(SubSeq(s, 1, Len(s) - 1)) ELSE s

\* s.strip ()
strip(s) == rstrip(lstrip(s))

\* sep.join (parts)
RECURSIVE join(_, _)
join(sep, parts) ==
    IF parts = <<>> THEN <<>>
    ELSE IF Len(parts) = 1 THEN parts[1]
    ELSE parts[1] \o sep \o join(sep, Tail(parts))

\* s.split (): the maximal runs of non-whitespace tokens
RECURSIVE split(_)
split(s) ==
    LET t == lstrip(s) IN
    IF t = <<>> THEN <<>>
    ELSE LET RECURSIVE wordLen(_)
             wordLen(i) == IF i > Len(t) \/ IsSpace(t[i]) THEN i - 1
                           ELSE wordLen(i + 1)
             n == wordLen(1)
         IN <<SubSeq(t, 1, n)>> \o split(SubSeq(t, n + 1, Len(t)))

\* s.replace (old, new) for one-token old and new
replace(s, old, new) == [i \in 1..Len(s) |-> IF s[i] = old THEN new ELSE s[i]]

\* s.encode ('utf-8') and b.decode ('utf-8') on ASCII text
encode(s) == [i \in 1..Len(s) |-> <<"byte", s[i]>>]
decode(b) == [i \in 1..Len(b) |-> b[i][2]]

-----------------------------------------------------------------------------
(* PicDirective *)

\* what a call returns: the value, or the exception raised and what it names
Return(v)       == [exc |-> "", val |-> v, names |-> None]
Raise(e, about) == [exc |-> e, val |-> None, names |-> about]

UnknownLanguage == "PicError: Unknown language in directive"
OptionRequired  == "PicError: option required in directive"

get_opt_fallback(opts, config, name, required) ==
    LET language == opts["language"]
        profile  == IF language \in DOMAIN config THEN config[language]
                    ELSE EmptyDict
        opt      == Or(Get(opts, name), Get(profile, name))
    IN IF required /\ Falsy(opt) THEN Raise(OptionRequired, <<name>>)
       ELSE Return(opt)

get_opt(opts, config, name, required) ==
    LET language == opts["language"] IN
    IF language \notin DOMAIN config
    THEN Raise(UnknownLanguage, language)
    ELSE LET profile == config[language]
             opt     == Or(Get(opts, name), Get(profile, name))
         IN IF required /\ Falsy(opt) THEN Raise(OptionRequired, <<name>>)
            ELSE Return(opt)

BothContentAndFile == "The PIC directive cannot have both content and a filename argument."
FileNotFound       == "External PIC file not found or reading it failed."
WithoutContent     == "Found PIC directive without content."

\* What get_code gives back: kind "str" with the code in val, or kind "list"
\* / "tuple" when it returns self.err (msg) (line 313 returns it with a
\* trailing comma, a 1-tuple); exc when get_opt raised; the warning passed
\* to the reporter; whether the file was opened and noted as a dependency.
CodeResult(kind, val, exc, names, warning, opened, noted) ==
    [kind |-> kind, val |-> val, exc |-> exc, names |-> names,
     warning |-> warning, opened |-> opened, noted |-> noted]

get_code(opts, config, args, lines, fileOK, fileText) ==
    LET wrap(pic_code, opened, noted) ==
            LET p == get_opt(opts, config, "prolog", FALSE)
                e == get_opt(opts, config, "epilog", FALSE)
            IN IF p.exc # ""
               THEN CodeResult("raise", None, p.exc, p.names, "", opened, noted)
               ELSE IF e.exc # ""
               THEN CodeResult("raise", None, e.exc, e.names, "", opened, noted)
               ELSE CodeResult("str", Or(p.val, <<>>) \o pic_code \o Or(e.val, <<>>),
                               "", None, "", opened, noted)
    IN IF Len(args) > 1
       THEN IF lines # <<>>
            THEN CodeResult("tuple", None, "", None, BothContentAndFile, FALSE, FALSE)
            ELSE IF fileOK
                 THEN wrap(fileText, TRUE, TRUE)
                 ELSE CodeResult("list", None, "", None, FileNotFound, TRUE, FALSE)
       ELSE LET pic_code == join(<<"\n">>, lines) IN
            IF strip(pic_code) = <<>>
            THEN CodeResult("list", None, "", None, WithoutContent, FALSE, FALSE)
            ELSE wrap(pic_code, FALSE, FALSE)

\* figure_wrapper: the figure takes the node's align attribute
figure_wrapper(n) == IF "align" \in DOMAIN n THEN Pop(n, "align") ELSE n

\* add_name: a :name: option becomes the node's names
add_name(n, opts) ==
    IF "name" \in DOMAIN opts THEN SetItem(n, "names", <<opts["name"]>>) ELSE n

\* the options _run copies into node['options'], with their `or` defaults
NodeOptionNames == {"program", "shell", "cwd", "alt", "language", "format",
                    "html-classes", "html-prolog", "html-epilog"}

NodeOptionDefault(name) ==
    IF name = "shell" THEN PyFalse
    ELSE IF name = "format" THEN <<"text", "/", "xml">>
    ELSE IF name \in {"html-classes", "html-prolog", "html-epilog"} THEN <<>>
    ELSE None

\* run () and _run (): the outcome of processing one directive
ProcessDirective(opts0, config, args, lines, fileOK, fileText) ==
    LET opts == SetItem(opts0, "language", args[1])
        code == get_code(opts, config, args, lines, fileOK, fileText)
        base == [exc |-> "", names |-> None, node |-> EmptyDict,
                 figure |-> FALSE, warning |-> code.warning,
                 opened |-> code.opened,
                 deps |-> IF code.noted THEN {args[2]} ELSE {}]
        o(name) == get_opt(opts, config, name, FALSE)
    IN IF code.kind = "raise"
       THEN [base EXCEPT !.exc = code.exc, !.names = code.names]
       ELSE IF code.kind # "str"
       THEN [base EXCEPT !.exc = "AttributeError: no attribute 'strip'"]
       ELSE LET failing == {n \in NodeOptionNames \cup {"align", "depends"} :
                               o(n).exc # ""}
            IN IF failing # {}
               THEN LET n == CHOOSE x \in failing : TRUE
                    IN [base EXCEPT !.exc = o(n).exc, !.names = o(n).names]
               ELSE LET n0 == [code    |-> strip(code.val),
                               options |-> [n \in NodeOptionNames |->
                                              IF NodeOptionDefault(n) = None
                                              THEN o(n).val
                                              ELSE Or(o(n).val, NodeOptionDefault(n))],
                               align   |-> o("align").val]
                        dep == IF Falsy(o("depends").val) THEN {}
                               ELSE {o("depends").val}
                    IN [base EXCEPT
                          !.node   = IF "caption" \in DOMAIN opts
                                     THEN figure_wrapper(n0)
                                     ELSE add_name(n0, opts),
                          !.figure = "caption" \in DOMAIN opts,
                          !.deps   = @ \cup dep]

-----------------------------------------------------------------------------
(* PicNode.html_visit: the substitutions on text/xml output.               *)
(* The output is a sequence of the literals the three patterns look for    *)
(* and of other characters.  No literal starts inside another or across    *)
(* two of them, except that "?>" ends with ">" and 'style="' ends with     *)
(* '"': a lazy `.*?>` or `.*?"` stops at the end of such a token.          *)

XMLOPEN   == "<?xml "
PIEND     == "?>"
DOCTYPE   == "<!DOCTYPE "
GT        == ">"
SVG       == "<svg "
STYLEOPEN == "style=\""
QUOTE     == "\""

\* the least index >= from whose token is in toks, 0 when there is none
RECURSIVE FirstIn(_, _, _)
FirstIn(s, from, toks) ==
    IF from > Len(s) THEN 0
    ELSE IF s[from] \in toks THEN from
    ELSE FirstIn(s, from + 1, toks)

\* re.sub (open + '.*?' + close, '', s, flags = re.S), scanning from i
RECURSIVE SubDelimited(_, _, _, _)
SubDelimited(s, i, open, close) ==
    IF i > Len(s) THEN <<>>
    ELSE LET j == FirstIn(s, i + 1, close) IN
         IF s[i] = open /\ j # 0
         THEN SubDelimited(s, j + 1, open, close)
         ELSE <<s[i]>> \o SubDelimited(s, i + 1, open, close)

\* re.sub (r'(<svg .*?)style=".*?"', r'\1', s, flags = re.S), scanning from i
RECURSIVE SubStyle(_, _)
SubStyle(s, i) ==
    IF i > Len(s) THEN <<>>
    ELSE LET k == FirstIn(s, i + 1, {STYLEOPEN})
             j == IF k = 0 THEN 0 ELSE FirstIn(s, k + 1, {QUOTE, STYLEOPEN})
         IN IF s[i] = SVG /\ j # 0
            THEN SubSeq(s, i, k - 1) \o SubStyle(s, j + 1)
            ELSE <<s[i]>> \o SubStyle(s, i + 1)

\* lines 213-218
Sanitize(s) ==
    LET a == SubDelimited(s, 1, XMLOPEN, {PIEND})
        b == SubDelimited(a, 1, DOCTYPE, {GT, PIEND})
    IN SubStyle(b, 1)

-----------------------------------------------------------------------------
(* PicNode.render and the visitors *)

Timeout == 15

ProducedErrors == "PicError: The pic program produced errors"
TimedOut       == "PicError: The pic program timed out"
CannotBeRun    == "PicError: The pic program cannot be run"

\* lines 183-187: what render does with what communicate returned
render_status(out, err, st) ==
    IF st # 0 THEN Raise(ProducedErrors, decode(err)) ELSE Return(out)

render_result(out, err, st) ==
    IF err # <<>> THEN Raise(ProducedErrors, decode(err)) ELSE Return(out)

TextXml   == <<"text", "/", "xml">>
TextPlain == <<"text", "/", "plain">>
ImagePng  == <<"image", "/", "png">>

\* lines 192-207: the items html_visit appends before it renders
html_open(n) ==
    LET format_ == n.options["format"]
        classes == <<<<"pic">>>>
                   \o (IF "align" \in DOMAIN n
                       THEN <<<<"align-">> \o Str(n.align)>> ELSE <<>>)
                   \o <<<<"pic-format-">> \o replace(format_, "/", "-")>>
                   \o <<<<"pic-language-">> \o n.options["language"]>>
                   \o (IF "html-classes" \in DOMAIN n.options
                       THEN split(n.options["html-classes"]) ELSE <<>>)
        align   == IF "align" \in DOMAIN n
                   THEN <<"align=\"">> \o Str(n.align) \o <<"\"">> ELSE <<>>
    IN << [part |-> "<div>",
           text |-> <<"<div ">> \o align \o <<" class=\"">>
                    \o join(<<" ">>, classes) \o <<"\">", "\n">>],
          [part |-> "html-prolog", text |-> n.options["html-prolog"]] >>

\* lines 209-230: the item appended for the output render returned
html_output(n, out) ==
    LET format_ == n.options["format"] IN
    IF format_ = TextXml
    THEN <<[part |-> "output", text |-> Sanitize(decode(out))]>>
    ELSE IF format_ = TextPlain
    THEN <<[part |-> "output", text |-> decode(out)]>>
    ELSE <<[part |-> "output",
            text |-> <<"<img src=\"data:image/png;base64,", "b'", "base64(">>
                     \o decode(out) \o <<")", "'", "\" />", "\n">>]>>

\* lines 232-233
html_close(n) ==
    << [part |-> "html-epilog", text |-> n.options["html-epilog"]],
       [part |-> "</div>", text |-> <<"</div>", "\n">>] >>

\* lines 372-377: node['alt'] is an attribute of the node, not one of
\* node['options']; `self` is no name of the function
dummy_visit_pic(n) ==
    IF "alt" \notin DOMAIN n
    THEN [exc |-> "KeyError: 'alt'", append |-> <<>>]
    ELSE [exc |-> "NameError: name 'self' is not defined", append |-> <<>>]

-----------------------------------------------------------------------------
(* The inputs *)

MaxLines == 1      \* lines of directive content
MaxLen   == 5      \* tokens of renderer output given to the substitutions

\* dicts with keys among `keys`, each key k holding a value of values(k)
Dicts(keys, values(_)) ==
    UNION { { d \in [K -> UNION {values(k) : k \in K}] :
                \A k \in K : d[k] \in values(k) } : K \in SUBSET keys }

\* what the directive's option_spec lets a directive carry: `unchanged`
\* options may be given empty, `choice` options may not
LocalValues(k) ==
    IF k = "prolog" THEN {<<>>, <<"@startuml", "\n">>}
    ELSE IF k = "format" THEN {TextPlain, ImagePng}
    ELSE {<<"A", " ", "caption">>}

LocalOptions == Dicts({"prolog", "format", "caption"}, LocalValues)

\* what conf.py may hold for a language (nothing validates it)
ProfileValues(k) ==
    IF k = "program" THEN {<<"dot", " ", "-Tsvg">>}
    ELSE IF k = "prolog" THEN {<<".PS", "\n">>}
    ELSE IF k = "alt" THEN {<<"a", " ", "diagram">>}
    ELSE {<<"application", "/", "pdf">>}

Profiles == Dicts({"program", "prolog", "alt", "format"}, ProfileValues)

Configs == {EmptyDict} \cup {[l \in {<<"dot">>} |-> p] : p \in Profiles}

Languages == {<<"dot">>, <<"uml">>}
Filenames == {<<"x.pic">>}
Arguments == {<<l>> : l \in Languages}
             \cup {<<l, f>> : l \in Languages, f \in Filenames}

Lines    == {<<"A">>, <<"box", " ", "B">>}
Contents == UNION {[1..n -> Lines] : n \in 0..MaxLines}

FileTexts == {<<"F", "\n">>}

\* the names get_opt is asked for
OptionNames == NodeOptionNames \cup {"align", "depends", "prolog", "epilog",
                                     "caption"}

\* what the external program may write
Outputs == {<<>>, <<"A">>,
            <<XMLOPEN, "v", PIEND, SVG, STYLEOPEN, "w", QUOTE, GT, "A">>}
Errors   == {<<>>, <<"syntax", " ", "error">>}
Statuses == {0, 1}

SanAlphabet == {XMLOPEN, PIEND, DOCTYPE, GT, SVG, STYLEOPEN, QUOTE, "a"}
SanStrings  == UNION {[1..n -> SanAlphabet] : n \in 0..MaxLen}

NoProbe == [called |-> FALSE, name |-> "", required |-> FALSE,
            result |-> Return(None)]
NoSan   == [in |-> None, once |-> None, twice |-> None]

-----------------------------------------------------------------------------
(* The state machine *)

Idle ==
    /\ probe = NoProbe
    /\ runExc = ""
    /\ runNames = None
    /\ warnings = <<>>
    /\ fileOpened = FALSE
    /\ dependencies = {}
    /\ node = EmptyDict
    /\ figure = FALSE
    /\ builder = ""
    /\ body = <<>>
    /\ proc = "none"
    /\ started = FALSE
    /\ killed = FALSE
    /\ elapsed = 0
    /\ stdout = <<>>
    /\ stderr = <<>>
    /\ status = 0
    /\ renderExit = ""
    /\ renderRet = None
    /\ visitExc = ""

\* a directive as docutils hands it to run (), under a conf.py
Init ==
    /\ pic_options \in Configs
    /\ arguments \in Arguments
    /\ content \in Contents
    /\ options \in LocalOptions
    /\ pc = "directive"
    /\ san = NoSan
    /\ Idle

directive == <<pic_options, arguments, content, options>>
ran       == <<runExc, runNames, warnings, fileOpened, dependencies, node, figure>>
process   == <<proc, started, killed, elapsed, stdout, stderr, status>>
visit     == <<builder, body, renderExit, renderRet, visitExc>>

\* the options while _run runs: run () has stored the language
RunOptions == SetItem(options, "language", arguments[1])

\* one call of get_opt on the directive
CallGetOpt ==
    /\ pc = "directive"
    /\ \E name \in OptionNames, required \in BOOLEAN :
         probe' = [called |-> TRUE, name |-> name, required |-> required,
                   result |-> get_opt(RunOptions, pic_options, name, required)]
    /\ pc' = "probed"
    /\ UNCHANGED <<directive, ran, process, visit, san>>

\* PicDirective.run
Run ==
    /\ pc = "directive"
    /\ \E fileOK \in BOOLEAN, fileText \in FileTexts :
         LET r == ProcessDirective(options, pic_options, arguments, content,
                                   fileOK, fileText)
         IN /\ runExc' = r.exc
            /\ runNames' = r.names
            /\ warnings' = IF r.warning = "" THEN warnings
                           ELSE Append(warnings, r.warning)
            /\ fileOpened' = r.opened
            /\ dependencies' = r.deps
            /\ node' = r.node
            /\ figure' = r.figure
            /\ pc' = IF r.exc = "" THEN "node" ELSE "failed"
    /\ UNCHANGED <<directive, probe, process, visit, san>>

DummyTargets == {"latex", "texinfo", "text", "man"}

\* dummy_visit_pic, the visitor of the latex, texinfo, text and man writers
DummyVisit ==
    /\ pc = "node"
    /\ \E b \in DummyTargets : builder' = b
    /\ body' = body \o dummy_visit_pic(node).append
    /\ visitExc' = dummy_visit_pic(node).exc
    /\ pc' = "visited"
    /\ UNCHANGED <<directive, probe, ran, process, renderExit, renderRet, san>>

Renders(n) == n.options["format"] \in {TextXml, TextPlain, ImagePng}

\* html_visit when the format is none of the three it renders
HtmlVisitNoRender ==
    /\ pc = "node"
    /\ ~Renders(node)
    /\ builder' = "html"
    /\ body' = body \o html_open(node) \o html_close(node)
    /\ visitExc' = "SkipNode"
    /\ pc' = "visited"
    /\ UNCHANGED <<directive, probe, ran, process, renderExit, renderRet, san>>

\* html_visit up to render's subprocess.Popen, which raises: a TypeError
\* for a program of None, else an OSError; neither is caught
HtmlVisitPopenFails ==
    /\ pc = "node"
    /\ Renders(node)
    /\ builder' = "html"
    /\ body' = body \o html_open(node)
    /\ renderExit' = IF node.options["program"] = None
                     THEN "TypeError" ELSE "OSError"
    /\ visitExc' = renderExit'
    /\ proc' = IF node.options["program"] = None THEN "none"
               ELSE "cannot start"
    /\ pc' = "visited"
    /\ UNCHANGED <<directive, probe, ran, started, killed, elapsed, stdout,
                   stderr, status, renderRet, san>>

\* html_visit up to render's proc.communicate, with the process started
HtmlVisitPopenStarts ==
    /\ pc = "node"
    /\ Renders(node)
    /\ node.options["program"] # None
    /\ builder' = "html"
    /\ body' = body \o html_open(node)
    /\ proc' = "running"
    /\ started' = TRUE
    /\ elapsed' = 0
    /\ pc' = "communicate"
    /\ UNCHANGED <<directive, probe, ran, killed, stdout, stderr, status,
                   renderExit, renderRet, visitExc, san>>

\* time passes while communicate waits
Tick ==
    /\ pc = "communicate"
    /\ elapsed < Timeout
    /\ elapsed' = elapsed + 1
    /\ UNCHANGED <<directive, pc, probe, ran, proc, started, killed, stdout,
                   stderr, status, visit, san>>

\* the process ends in time: communicate returns, render and html_visit
\* run to their end
CommunicateReturns ==
    /\ pc = "communicate"
    /\ elapsed < Timeout
    /\ \E out \in Outputs, err \in Errors, st \in Statuses :
         LET r == render_result(encode(out), encode(err), st)
         IN /\ stdout' = encode(out)
            /\ stderr' = encode(err)
            /\ status' = st
            /\ renderExit' = IF r.exc = "" THEN "returned" ELSE r.exc
            /\ renderRet' = r.val
            /\ visitExc' = IF r.exc = "" THEN "SkipNode" ELSE r.exc
            /\ body' = IF r.exc = ""
                       THEN body \o html_output(node, r.val) \o html_close(node)
                       ELSE body
    /\ proc' = "terminated"
    /\ pc' = "visited"
    /\ UNCHANGED <<directive, probe, ran, started, killed, elapsed, builder,
                   san>>

CommunicateTimeout_nokill ==
    /\ pc = "communicate"
    /\ elapsed = Timeout
    /\ \E out \in Outputs, err \in Errors :
         /\ stdout' = encode(out)
         /\ stderr' = encode(err)
    /\ renderExit' = TimedOut
    /\ visitExc' = TimedOut
    /\ pc' = "visited"
    /\ UNCHANGED <<directive, probe, ran, proc, started, killed, elapsed,
                   status, builder, body, renderRet, san>>

\* the wait expires (TimeoutExpired): kill, communicate again, raise
CommunicateTimeout ==
    /\ pc = "communicate"
    /\ elapsed = Timeout
    /\ killed' = TRUE
    /\ proc' = "terminated"
    /\ status' = -9
    /\ \E out \in Outputs, err \in Errors :
         /\ stdout' = encode(out)
         /\ stderr' = encode(err)
    /\ renderExit' = TimedOut
    /\ visitExc' = TimedOut
    /\ pc' = "visited"
    /\ UNCHANGED <<directive, probe, ran, started, elapsed, builder, body,
                   renderRet, san>>

\* communicate raises an OSError: the handler's message formats `program`,
\* which is no name of render
CommunicateOSError ==
    /\ pc = "communicate"
    /\ renderExit' = "NameError: name 'program' is not defined"
    /\ visitExc' = renderExit'
    /\ pc' = "visited"
    /\ UNCHANGED <<directive, probe, ran, process, builder, body, renderRet,
                   san>>

Next ==
    \/ CallGetOpt
    \/ Run
    \/ DummyVisit
    \/ HtmlVisitNoRender
    \/ HtmlVisitPopenFails
    \/ HtmlVisitPopenStarts
    \/ Tick
    \/ CommunicateReturns
    \/ CommunicateTimeout
    \/ CommunicateOSError

Spec == Init /\ [][Next]_vars

-----------------------------------------------------------------------------
(* The text/xml substitutions on their own: any output, substituted twice *)

InitSan ==
    /\ pic_options = EmptyDict
    /\ arguments = <<>>
    /\ content = <<>>
    /\ options = EmptyDict
    /\ pc = "sanitize"
    /\ san \in {[NoSan EXCEPT !.in = s] : s \in SanStrings}
    /\ Idle

SanitizeOnce ==
    /\ pc = "sanitize"
    /\ san.once = None
    /\ san' = [san EXCEPT !.once = Sanitize(san.in)]
    /\ UNCHANGED <<directive, pc, probe, ran, process, visit>>

SanitizeTwice ==
    /\ pc = "sanitize"
    /\ san.once # None
    /\ san.twice = None
    /\ san' = [san EXCEPT !.twice = Sanitize(san.once)]
    /\ UNCHANGED <<directive, pc, probe, ran, process, visit>>

NextSan == SanitizeOnce \/ SanitizeTwice

SpecSan == InitSan /\ [][NextSan]_vars

-----------------------------------------------------------------------------
(* Properties *)

Processed     == pc \in {"failed", "node", "communicate", "visited"}
KnownLanguage == arguments[1] \in DOMAIN pic_options
RenderInvoked == pc = "communicate" \/ renderExit # ""

\* C1: merge precedence of get_opt.  For every option name, a value the
\* directive carries for it (an empty string included) is what get_opt
\* returns; the profile's value is returned only when the directive carries
\* none; the result is absent only when neither has one.
C1_LocalValueWins ==
    (probe.called /\ ~probe.required /\ KnownLanguage) =>
        LET profile == pic_options[arguments[1]]
            name    == probe.name
            r       == probe.result
        IN /\ r.exc = ""
           /\ name \in DOMAIN RunOptions => r.val = RunOptions[name]
           /\ (name \notin DOMAIN RunOptions /\ name \in DOMAIN profile)
                 => r.val = profile[name]
           /\ r.val = None
                 => (name \notin DOMAIN RunOptions /\ name \notin DOMAIN profile)

\* C2: required fields fail fast.  A directive whose program is in neither
\* the directive's options nor the language's profile ends run () with the
\* "option required" error naming program, so that whenever render is
\* invoked the node's options hold a program.
C2_ProgramRequired ==
    /\ (Processed /\ KnownLanguage /\ Len(arguments) = 1 /\ content # <<>>
          /\ Get(RunOptions, "program") = None
          /\ Get(pic_options[arguments[1]], "program") = None)
         => (runExc = OptionRequired /\ runNames = <<"program">>)
    /\ RenderInvoked => node.options["program"] # None

\* C3: for a language that is no key of pic_options, get_opt raises the
\* "Unknown language" PicError naming the language, whatever option is asked
\* for, and returns no value.
C3_UnknownLanguage ==
    (probe.called /\ ~KnownLanguage) =>
        /\ probe.result.exc = UnknownLanguage
        /\ probe.result.names = arguments[1]
        /\ probe.result.val = None

C3_Witness ==
    /\ probe.called
    /\ ~KnownLanguage
    /\ pic_options # EmptyDict
    /\ probe.name \in DOMAIN pic_options[<<"dot">>]
    /\ probe.result.exc = UnknownLanguage

\* C4: a directive with both content and a filename argument ends run ()
\* with the mutual-exclusion error; no file is opened and no process is
\* started.
C4_ContentAndFilename ==
    (Processed /\ Len(arguments) > 1 /\ content # <<>>) =>
        /\ runExc = BothContentAndFile
        /\ ~fileOpened
        /\ ~started

\* C5: when the process cannot be created (Popen raises an OSError), render
\* fails with the "cannot be run" PicError and with no other error.
C5_CannotBeRun ==
    proc = "cannot start" => renderExit = CannotBeRun

\* C6: when the process ends within the timeout, a non-empty error stream
\* makes render fail with the "produced errors" PicError and return
\* nothing, whatever the exit status and the input; render returns the
\* captured stdout only when the error stream is empty.
C6_ErrorStream ==
    (pc = "visited" /\ proc = "terminated" /\ ~killed) =>
        /\ stderr # <<>> => (renderExit = ProducedErrors /\ renderRet = None)
        /\ renderExit = "returned" => (stderr = <<>> /\ renderRet = stdout)

C6_Witness ==
    /\ pc = "visited"
    /\ proc = "terminated"
    /\ ~killed
    /\ stderr # <<>>
    /\ status = 0
    /\ stdout # <<>>
    /\ renderExit = ProducedErrors

\* C7: a process still running when the 15-unit wait expires is killed and
\* reaped and render fails with the "timed out" PicError; after render has
\* returned, failed on the error stream or timed out, the process it
\* started is terminated.
C7_TimeoutKills ==
    /\ renderExit = TimedOut
         => (killed /\ proc = "terminated" /\ elapsed = Timeout)
    /\ (pc = "visited" /\ started /\ elapsed = Timeout
          /\ renderExit \in {"returned", ProducedErrors, TimedOut})
         => renderExit = TimedOut
    /\ renderExit \in {"returned", ProducedErrors, TimedOut}
         => (started /\ proc = "terminated")

C7_Witness ==
    /\ pc = "visited"
    /\ renderExit = TimedOut
    /\ elapsed = Timeout
    /\ killed
    /\ proc = "terminated"

\* C8: the three substitutions are idempotent: applied to their own result
\* they change nothing.
C8_SanitizeIdempotent ==
    san.twice # None => san.twice = san.once

Placeholder(n) ==
    IF Falsy(n.options["alt"]) THEN <<"[graph]">>
    ELSE <<"[graph: ">> \o n.options["alt"] \o <<"]">>

\* C9: for the latex, texinfo, text and man targets the visit appends one
\* placeholder to the body ('[graph: <alt>]' with alt text, else
\* '[graph]'), starts no process and skips the node.
C9_Placeholder ==
    (pc = "visited" /\ builder \in DummyTargets) =>
        /\ Len(body) = 1
        /\ body[1] = Placeholder(node)
        /\ ~started
        /\ visitExc = "SkipNode"

Parts(b) == [i \in 1..Len(b) |-> b[i].part]

\* C10: html_visit leaves the body well-formed: when it ends, by SkipNode
\* after a render that returned or by a PicError from render, what it
\* appended is nothing or the complete wrapper from '<div' to '</div>'.
C10_BodyWellFormed ==
    (pc = "visited" /\ builder = "html"
       /\ \/ (visitExc = "SkipNode" /\ renderExit = "returned")
          \/ visitExc \in {CannotBeRun, ProducedErrors, TimedOut}) =>
        \/ body = <<>>
        \/ Parts(body) = <<"<div>", "html-prolog", "output", "html-epilog",
                           "</div>">>
====
